---- MODULE Spec2Model ----
(***************************************************************************)
(* iwgtk utilities.c: the echo-suppressing remote property setter          *)
(* (set_remote_property / set_remote_property_callback) and the generic    *)
(* completion handler validation_callback, on GLib's single-threaded main  *)
(* loop.  One action is one main-loop dispatch (a whole handler).          *)
(***************************************************************************)
EXTENDS Integers, Sequences, FiniteSets, TLC

(* ---------------------------- bounds ----------------------------------- *)
MaxInflight == 2      \* writes that may be pending at once
MaxCalls == 2         \* set_remote_property invocations started by user / notification
MaxTable == 2         \* error-table entries before the sentinel
MaxDict == 3          \* entries of a property dictionary

(* ---------------------------- universe --------------------------------- *)
\* properties iwgtk writes: Adapter.Powered (a switch), Device.Mode (a combo box)
Keys == {<<"adapter", "Powered">>, <<"device", "Mode">>}
KeyOrder == << <<"adapter", "Powered">>, <<"device", "Mode">> >>
Proxies == {k[1] : k \in Keys}

\* GVariant values: a type string and a payload
GBool(b) == [type |-> "b", val |-> b]
GStr(str) == [type |-> "s", val |-> str]
ValuesOf(p) == IF p = "Powered" THEN {GBool(TRUE), GBool(FALSE)}
               ELSE {GStr("station"), GStr("ap")}
Values == ValuesOf("Powered") \cup ValuesOf("Mode")

\* the SetFunction and context each object's widgets register as failure
\* callback: adapter_set(adapter), device_set(device)
SetFunctionOf(proxy) == IF proxy = "adapter" THEN "adapter_set" ELSE "device_set"
ContextOf(proxy) == IF proxy = "adapter" THEN "adapter_obj" ELSE "device_obj"
ProxyOfContext(data) == IF data = "adapter_obj" THEN "adapter" ELSE "device"
RemoteErrors == {"NotPermitted", "Timeout"}

Addrs == 1..MaxInflight
\* a heap block that is not allocated
Free == [live |-> FALSE, callback |-> "none", data |-> "none", property |-> "none"]

\* C strings are non-empty sequences of fragments; the NULL pointer is <<>>
NullStr == <<>>
\* a NULL error_table; a real table always holds at least its sentinel
NullTable == <<>>
IwdDomain == "iwd_error_domain"
ErrorDomains == {IwdDomain, "g-io-error-quark"}
MaxCode == 3
ErrorCodes == 0..MaxCode
TableCodes == 1..2
TableMessages == {<<"Operation already in progress">>, <<"Invalid arguments">>}
SentinelMessages == {NullStr, <<"Unknown error">>}
Entries == [code : TableCodes, message : TableMessages]
Sentinels == [code : {0}, message : SentinelMessages]
Bodies == UNION {[1..n -> Entries] : n \in 0..MaxTable}
\* error tables as the callers define them: entries, then a zero-code sentinel
ErrorTables == {b \o <<z>> : b \in Bodies, z \in Sentinels}
NoMessages == [null |-> TRUE, success |-> NullStr, failure |-> NullStr,
               error_table |-> NullTable]
\* CallbackMessages *messages, NULL included
MessagesSet ==
    {NoMessages} \cup
    [null : {FALSE}, success : {NullStr, <<"Connected">>},
     failure : {NullStr, <<"Connection failed">>},
     error_table : ErrorTables \cup {NullTable}]
\* the outcome g_dbus_proxy_call_finish reports
OkResult == [ok |-> TRUE, domain |-> "none", code |-> 0, message |-> "none"]
Failures == [ok : {FALSE}, domain : ErrorDomains, code : ErrorCodes, message : RemoteErrors]
\* failures of Properties.Set; set_remote_property_callback reads only the message
SetFailures == {f \in Failures : f.domain = IwdDomain /\ f.code = 1}
NoCall == [active |-> FALSE, messages |-> NoMessages]

VARIABLES
    cache,                  \* GDBusProxy property cache: Keys -> Values
    pending,                \* Properties.Set calls whose reply has not been dispatched
    heap,                   \* malloc'ed FailureClosures: Addrs -> closure | Free
    heapError,              \* a free() or a read hit a block that is not live
    calls,                  \* set_remote_property invocations
    issued,                 \* Properties.Set calls issued
    failedCompletions,      \* completions of Properties.Set that reported failure
    logLines,               \* lines written to stderr by set_remote_property_callback
    cbInvocations,          \* failure callback invocations
    notifications_disable,  \* global.notifications_disable
    vcall,                  \* the call whose completion validation_callback awaits
    events                  \* observable effects of the handler dispatched last

vars == <<cache, pending, heap, heapError, calls, issued,
          failedCompletions, logLines, cbInvocations,
          notifications_disable, vcall, events>>

\* the program state as one record, so that handlers compose (a failure
\* callback re-enters set_remote_property inside the completion handler)
State ==
    [cache |-> cache, pending |-> pending, heap |-> heap, heapError |-> heapError,
     calls |-> calls, issued |-> issued,
     failedCompletions |-> failedCompletions,
     logLines |-> logLines, cbInvocations |-> cbInvocations,
     notifications_disable |-> notifications_disable, vcall |-> vcall,
     events |-> <<>>]

Becomes(s) ==
    /\ cache' = s.cache
    /\ pending' = s.pending
    /\ heap' = s.heap
    /\ heapError' = s.heapError
    /\ calls' = s.calls
    /\ issued' = s.issued
    /\ failedCompletions' = s.failedCompletions
    /\ logLines' = s.logLines
    /\ cbInvocations' = s.cbInvocations
    /\ notifications_disable' = s.notifications_disable
    /\ vcall' = s.vcall
    /\ events' = s.events

(* ---------------------------- GLib primitives -------------------------- *)
\* (mutant) the two GVariant pointers compared instead of their contents
g_variant_equal_ptr(one, two) == FALSE

\* g_variant_equal: same type and same serialised payload
g_variant_equal(one, two) == one.type = two.type /\ one.val = two.val

\* g_dbus_proxy_get_cached_property
g_dbus_proxy_get_cached_property(s, proxy, property) == s.cache[<<proxy, property>>]

\* g_dbus_proxy_get_interface_name
g_dbus_proxy_get_interface_name(proxy) ==
    IF proxy = "adapter" THEN "net.connman.iwd.Adapter" ELSE "net.connman.iwd.Device"

\* malloc: a block that is not live; the null pointer (0) when none is left
FreeAddrs(s) == {a \in Addrs : ~s.heap[a].live}
malloc(s) ==
    IF FreeAddrs(s) = {} THEN 0
    ELSE CHOOSE a \in FreeAddrs(s) : \A b \in FreeAddrs(s) : a <= b

\* free(failure)
free(s, a) ==
    IF ~s.heap[a].live
    THEN [s EXCEPT !.heapError = TRUE, !.events = Append(@, [type |-> "free", addr |-> a])]
    ELSE [s EXCEPT !.heap[a] = Free, !.events = Append(@, [type |-> "free", addr |-> a])]

Emit(s, e) == [s EXCEPT !.events = Append(@, e)]

(* ---------------------------- set_remote_property ---------------------- *)
\* (mutant) the negation dropped
MustWriteInverted(value, value_cached) == g_variant_equal(value, value_cached)

\* (mutant) no equality check at all
MustWriteAlways(value, value_cached) == TRUE

\* utilities.c:115  if (!g_variant_equal(value, value_cached))
MustWrite(value, value_cached) == ~g_variant_equal(value, value_cached)

\* (mutant) the callback stored in the data field
NewClosureSwapped(property, failure_callback, failure_data) ==
    [live |-> TRUE, callback |-> failure_callback, data |-> failure_callback,
     property |-> property]

\* utilities.c:118-121  the FailureClosure
NewClosure(property, failure_callback, failure_data) ==
    [live |-> TRUE, callback |-> failure_callback, data |-> failure_data,
     property |-> property]

\* utilities.c:123-131  the g_dbus_proxy_call; user_data is the closure
IssueSet(s, proxy, property, value, failure_callback, failure_data) ==
    LET a == malloc(s)
        call == [proxy |-> proxy,
                 method |-> "org.freedesktop.DBus.Properties.Set",
                 args |-> <<g_dbus_proxy_get_interface_name(proxy), property, value>>,
                 user_data |-> a,
                 \* history: what the originating call was given
                 origCallback |-> failure_callback,
                 origData |-> failure_data]
    IN  [s EXCEPT !.heap = IF a \in Addrs
                            THEN [@ EXCEPT ![a] = NewClosure(property, failure_callback,
                                                            failure_data)]
                            ELSE @,
                  \* the closure fields are written through the pointer
                  !.heapError = @ \/ a \notin Addrs,
                  !.pending = @ \cup {call},
                  !.issued = @ + 1,
                  !.events = Append(@, [type |-> "dbus_call", call |-> call])]

\* (mutant) the written value stored in the cache before iwd confirms it
set_remote_property_optimistic(s, proxy, property, value, failure_callback, failure_data) ==
    LET value_cached == g_dbus_proxy_get_cached_property(s, proxy, property)
        s0 == Emit([s EXCEPT !.calls = @ + 1],
                   [type |-> "set_remote_property", proxy |-> proxy, property |-> property,
                    value |-> value, cached |-> value_cached,
                    callback |-> failure_callback, data |-> failure_data])
        s1 == IF MustWrite(value, value_cached)
              THEN [IssueSet(s0, proxy, property, value, failure_callback, failure_data)
                      EXCEPT !.cache[<<proxy, property>>] = value]
              ELSE Emit(s0, [type |-> "g_variant_unref", what |-> "value"])
    IN  Emit(s1, [type |-> "g_variant_unref", what |-> "value_cached"])

\* (mutant) the value released after it was handed to the outgoing call
set_remote_property_unref_both(s, proxy, property, value, failure_callback, failure_data) ==
    LET value_cached == g_dbus_proxy_get_cached_property(s, proxy, property)
        s0 == Emit([s EXCEPT !.calls = @ + 1],
                   [type |-> "set_remote_property", proxy |-> proxy, property |-> property,
                    value |-> value, cached |-> value_cached,
                    callback |-> failure_callback, data |-> failure_data])
        s1 == IF MustWrite(value, value_cached)
              THEN IssueSet(s0, proxy, property, value, failure_callback, failure_data)
              ELSE s0
        s2 == Emit(s1, [type |-> "g_variant_unref", what |-> "value"])
    IN  Emit(s2, [type |-> "g_variant_unref", what |-> "value_cached"])

\* utilities.c:111-137
set_remote_property(s, proxy, property, value, failure_callback, failure_data) ==
    LET value_cached == g_dbus_proxy_get_cached_property(s, proxy, property)
        s0 == Emit([s EXCEPT !.calls = @ + 1],
                   [type |-> "set_remote_property", proxy |-> proxy, property |-> property,
                    value |-> value, cached |-> value_cached,
                    callback |-> failure_callback, data |-> failure_data])
        s1 == IF MustWrite(value, value_cached)
              THEN IssueSet(s0, proxy, property, value, failure_callback, failure_data)
              ELSE Emit(s0, [type |-> "g_variant_unref", what |-> "value"])
    IN  Emit(s1, [type |-> "g_variant_unref", what |-> "value_cached"])

(* ---------------------------- set_remote_property_callback ------------- *)
\* the widgets of one object, in the order its SetFunction refreshes them
RECURSIVE Refresh(_, _, _, _)
\* adapter_set / device_set: put the cached values back into the widgets of
\* the object; each widget in `changed` emits its change signal, whose handler
\* calls set_remote_property with the value just taken from the cache
Refresh(s, i, changed, data) ==
    IF i > Len(KeyOrder) THEN s
    ELSE LET k == KeyOrder[i]
             s1 == IF k \in changed /\ k[1] = ProxyOfContext(data)
                   THEN set_remote_property(s, k[1], k[2],
                            g_dbus_proxy_get_cached_property(s, k[1], k[2]),
                            SetFunctionOf(k[1]), ContextOf(k[1]))
                   ELSE s
         IN  Refresh(s1, i + 1, changed, data)

\* (mutant) the callback invoked twice
InvokeFailureCallbackTwice(s, callback, data, changed) ==
    Refresh(Emit(Emit([s EXCEPT !.cbInvocations = @ + 2],
                      [type |-> "failure_callback", callback |-> callback, data |-> data]),
                 [type |-> "failure_callback", callback |-> callback, data |-> data]),
            1, changed, data)

\* utilities.c:98  failure->callback(failure->data)
InvokeFailureCallback(s, callback, data, changed) ==
    Refresh(Emit([s EXCEPT !.cbInvocations = @ + 1],
                 [type |-> "failure_callback", callback |-> callback, data |-> data]),
            1, changed, data)

\* utilities.c:95  the diagnostic line
ErrorLine(property, message) ==
    <<"Error setting remote property '", property, "': ", message, "\n">>

\* reading through the closure pointer
Deref(s, a) == IF s.heap[a].live THEN s ELSE [s EXCEPT !.heapError = TRUE]

\* utilities.c:94-99  the failure branch
FailureBranch(s, failure, res, changed) ==
    LET s1 == Deref(s, failure)
        s2 == Emit([s1 EXCEPT !.logLines = @ + 1],
                   [type |-> "stderr",
                    text |-> ErrorLine(s1.heap[failure].property, res.message)])
    IN  InvokeFailureCallback(s2, s2.heap[failure].callback, s2.heap[failure].data,
                              changed)

\* (mutant) the callback also invoked when the write succeeded
SuccessBranchCallsBack(s, failure, res, changed) ==
    InvokeFailureCallback(Emit(s, [type |-> "g_variant_unref", what |-> "ret"]),
                          s.heap[failure].callback, s.heap[failure].data, changed)

\* utilities.c:91-93  the success branch
SuccessBranch(s, failure, res, changed) ==
    Emit(s, [type |-> "g_variant_unref", what |-> "ret"])

\* (mutant) the closure freed in the failure branch and again at the end
set_remote_property_callback_double_free(s, failure, res, changed) ==
    LET s1 == IF res.ok THEN SuccessBranch(s, failure, res, changed)
              ELSE free(FailureBranch(s, failure, res, changed), failure)
    IN  free(s1, failure)

\* (mutant) the closure freed on success only
set_remote_property_callback_leak(s, failure, res, changed) ==
    IF res.ok THEN free(SuccessBranch(s, failure, res, changed), failure)
    ELSE FailureBranch(s, failure, res, changed)

\* (mutant) the closure freed before the branch that reads it
set_remote_property_callback_free_first(s, failure, res, changed) ==
    LET s0 == free(s, failure)
    IN  IF res.ok THEN SuccessBranch(s0, failure, res, changed)
        ELSE FailureBranch(s0, failure, res, changed)

\* utilities.c:84-102
set_remote_property_callback(s, failure, res, changed) ==
    LET s1 == IF res.ok THEN SuccessBranch(s, failure, res, changed)
              ELSE FailureBranch(s, failure, res, changed)
    IN  free(s1, failure)

(* ---------------------------- validation_callback ---------------------- *)
\* (mutant) global.notifications_disable not consulted
send_notification_ungated(s, text, priority) ==
    Emit(Emit(s, [type |-> "send_notification", text |-> text]),
         [type |-> "notification", title |-> "iwgtk", body |-> text,
          priority |-> priority])

\* utilities.c:158-167
send_notification(s, text, priority) ==
    LET s1 == Emit(s, [type |-> "send_notification", text |-> text])
    IN  IF ~s1.notifications_disable
        THEN Emit(s1, [type |-> "notification", title |-> "iwgtk", body |-> text,
                       priority |-> priority])
        ELSE s1

\* (mutant) the error domain not checked
EntryMatchesAnyDomain(entry, err) == entry.code = err.code \/ entry.code = 0

\* (mutant) the zero-code sentinel not recognised
EntryMatchesNoSentinel(entry, err) ==
    err.domain = IwdDomain /\ entry.code = err.code

\* utilities.c:44  the test that ends the scan at entry i
EntryMatches(entry, err) ==
    (err.domain = IwdDomain /\ entry.code = err.code) \/ entry.code = 0

RECURSIVE ScanTable(_, _, _)
\* utilities.c:41-49  index of the entry the loop stops at; Len + 1 when the
\* loop runs off the end of the array
ScanTable(error_table, err, i) ==
    IF i > Len(error_table) THEN i
    ELSE IF EntryMatches(error_table[i], err) THEN i
    ELSE ScanTable(error_table, err, i + 1)

\* utilities.c:39-50  detailed
Detailed(messages, err) ==
    IF messages.error_table # NullTable
    THEN LET i == ScanTable(messages.error_table, err, 1)
         IN  IF i <= Len(messages.error_table)
             THEN messages.error_table[i].message
             ELSE <<"<out of bounds>">>
    ELSE NullStr

\* utilities.c:52-60  g_strconcat(messages->failure, ": ", detailed, NULL)
FailureText(messages, err) ==
    LET detailed == Detailed(messages, err)
    IN  IF detailed # NullStr
        THEN messages.failure \o <<": ">> \o detailed
        ELSE messages.failure

\* utilities.c:63  fprintf(stderr, "%s\n", err->message)
LogRawError(s, err) == Emit(s, [type |-> "stderr", text |-> <<err.message, "\n">>])

\* utilities.c:40-50  the scan as the handler runs it: entries 1..stop are read
RecordScan(s, err, messages) ==
    IF messages.error_table # NullTable
    THEN Emit(s, [type |-> "table_scan",
                  stop |-> ScanTable(messages.error_table, err, 1)])
    ELSE s

\* utilities.c:36-61  the user-facing part of the failure branch
NotifyFailure(s, err, messages) ==
    IF ~messages.null /\ messages.failure # NullStr
    THEN send_notification(RecordScan(s, err, messages),
                           FailureText(messages, err), "NORMAL")
    ELSE s

\* utilities.c:29-34
NotifySuccess(s, messages) ==
    LET s1 == Emit(s, [type |-> "g_variant_unref", what |-> "ret"])
    IN  IF ~messages.null /\ messages.success # NullStr
        THEN send_notification(s1, messages.success, "NORMAL")
        ELSE s1

\* (mutant) the raw error logged only inside the messages branch
validation_callback_quiet(s, res, messages) ==
    IF res.ok
    THEN NotifySuccess(s, messages)
    ELSE IF ~messages.null /\ messages.failure # NullStr
         THEN LogRawError(NotifyFailure(s, res, messages), res)
         ELSE s

\* utilities.c:22-66
validation_callback(s, res, messages) ==
    IF res.ok
    THEN NotifySuccess(s, messages)
    ELSE LogRawError(NotifyFailure(s, res, messages), res)

(* ---------------------------- lookup_property -------------------------- *)
\* a{sv} dictionaries as the iterator walks them; a key may occur twice
DictKeys == {"Powered", "Mode"}
DictValues == {GStr("station"), GStr("ap")}
DictEntries == [key : DictKeys, value : DictValues]
Dictionaries == UNION {[1..n -> DictEntries] : n \in 0..MaxDict}
\* the property names callers ask for; "Name" is in no dictionary
LookupNames == DictKeys \cup {"Name"}
\* the NULL GVariant pointer
NullVariant == [type |-> "null", val |-> ""]

\* strcmp, as far as its result is compared with zero
strcmp(a, b) == IF a = b THEN 0 ELSE 1

\* (mutant) the comparison with zero inverted
KeyMatchesInverted(property, key) == strcmp(property, key) # 0

\* utilities.c:146  if (strcmp(property, key) == 0)
KeyMatches(property, key) == strcmp(property, key) = 0

RECURSIVE LookupLoop(_, _, _, _)
\* utilities.c:145-155  the loop over g_variant_iter_next and the final return
LookupLoop(s, dictionary, property, i) ==
    IF i > Len(dictionary)
    THEN Emit(s, [type |-> "return", value |-> NullVariant, index |-> 0])
    ELSE LET key == dictionary[i].key
             value == dictionary[i].value
         IN  IF KeyMatches(property, key)
             THEN Emit(Emit(s, [type |-> "g_free", index |-> i]),
                       [type |-> "return", value |-> value, index |-> i])
             ELSE LookupLoop(
                      Emit(Emit(s, [type |-> "g_free", index |-> i]),
                           [type |-> "g_variant_unref", what |-> "value", index |-> i]),
                      dictionary, property, i + 1)

\* utilities.c:139-156
lookup_property(s, dictionary, property) ==
    LookupLoop(Emit(s, [type |-> "lookup_property", dictionary |-> dictionary,
                        property |-> property]),
               dictionary, property, 1)

TypeOK ==
    /\ cache \in [Keys -> Values]
    /\ \A k \in Keys : cache[k] \in ValuesOf(k[2])
    /\ heapError \in BOOLEAN
    /\ notifications_disable \in BOOLEAN
    /\ calls \in Nat /\ issued \in Nat
    /\ \A c \in pending : c.user_data \in Addrs

\* the property values iwd reports when iwgtk starts
InitialCache ==
    (<<"adapter", "Powered">> :> GBool(TRUE)) @@ (<<"device", "Mode">> :> GStr("station"))

\* iwgtk started, proxies built, nothing in flight; notifications are on
\* unless the command line disabled them
Startup(disable) ==
    /\ cache = InitialCache
    /\ pending = {}
    /\ heap = [a \in Addrs |-> Free]
    /\ heapError = FALSE
    /\ calls = 0
    /\ issued = 0
    /\ failedCompletions = 0
    /\ logLines = 0
    /\ cbInvocations = 0
    /\ notifications_disable = disable
    /\ vcall = NoCall
    /\ events = <<>>

Init == Startup(FALSE)

\* the user changes a widget; its signal handler calls set_remote_property
UserSet ==
    \E k \in Keys :
      \E v \in ValuesOf(k[2]) :
        /\ calls < MaxCalls
        /\ FreeAddrs(State) # {}
        /\ Becomes(set_remote_property(
                     Emit(State, [type |-> "widget_changed_by_user", proxy |-> k[1],
                                  property |-> k[2], value |-> v]),
                     k[1], k[2], v, SetFunctionOf(k[1]), ContextOf(k[1])))

\* the main loop dispatches the reply of the pending Properties.Set whose
\* user_data is the closure at address a
CompleteAt(a) ==
    \E c \in pending, res \in {OkResult} \cup SetFailures, changed \in SUBSET Keys :
        /\ c.user_data = a
        /\ res.ok => changed = {}
        /\ Becomes(set_remote_property_callback(
                     Emit([State EXCEPT !.pending = @ \ {c},
                                        !.failedCompletions = @ + (IF res.ok THEN 0 ELSE 1)],
                          [type |-> "completion", call |-> c, res |-> res]),
                     c.user_data, res, changed))

Complete == \E a \in Addrs : CompleteAt(a)

\* PropertiesChanged from iwd: the proxy updates its cache, iwgtk updates the
\* widget; if the widget's state changed its signal calls set_remote_property
PropertyChanged ==
    \E k \in Keys, echo \in BOOLEAN :
      \E v \in ValuesOf(k[2]) :
        /\ v # cache[k]
        /\ echo => calls < MaxCalls
        /\ LET s == Emit([State EXCEPT !.cache[k] = v],
                         [type |-> "properties_changed", proxy |-> k[1],
                          property |-> k[2], value |-> v])
           IN  Becomes(IF echo
                       THEN set_remote_property(s, k[1], k[2], v,
                                SetFunctionOf(k[1]), ContextOf(k[1]))
                       ELSE s)

Next == UserSet \/ Complete \/ PropertyChanged

Spec == Init /\ [][Next]_vars

\* the GLib main loop dispatches every reply that has arrived, and iwd
\* answers every method call (with a result or an error)
FairSpec == Spec /\ \A a \in Addrs : WF_vars(CompleteAt(a))

\* a caller starts a method call with validation_callback as its completion
\* handler and `messages` as its user data
StartValidatedCall ==
    \E messages \in MessagesSet :
        /\ ~vcall.active
        /\ Becomes([State EXCEPT !.vcall = [active |-> TRUE, messages |-> messages],
                                 !.events = <<[type |-> "validated_call",
                                               messages |-> messages]>>])

\* the main loop dispatches the reply of that call
ValidationComplete ==
    \E res \in {OkResult} \cup Failures :
        /\ vcall.active
        /\ Becomes(validation_callback(
                     Emit([State EXCEPT !.vcall = NoCall],
                          [type |-> "validation_callback", res |-> res,
                           messages |-> vcall.messages]),
                     res, vcall.messages))

NextV == StartValidatedCall \/ ValidationComplete

\* a handler that received a property dictionary from iwd looks a property up
LookupProperty ==
    \E dictionary \in Dictionaries, property \in LookupNames :
        Becomes(lookup_property(State, dictionary, property))

NextL == LookupProperty

SpecL == Init /\ [][NextL]_vars

InitV == \E disable \in BOOLEAN : Startup(disable)

SpecV == InitV /\ [][NextV]_vars

(* ---------------------------- properties ------------------------------- *)
EventIdx == DOMAIN events
Dispatched(t) == events # <<>> /\ events[1].type = t
CountType(t) == Cardinality({i \in EventIdx : events[i].type = t})
Contains(text, x) == \E n \in DOMAIN text : text[n] = x
InFlightAt(a) == \E c \in pending : c.user_data = a
InFlight(k) == Cardinality({c \in pending : c.proxy = k[1] /\ c.args[2] = k[2]})
LiveAddrs == {a \in Addrs : heap[a].live}
SrpIdx == {i \in EventIdx : events[i].type = "set_remote_property"}
\* the Properties.Set calls made by the set_remote_property invocation at i
WritesOfCall(i) ==
    {j \in EventIdx : /\ j > i
                      /\ events[j].type = "dbus_call"
                      /\ ~\E m \in SrpIdx : i < m /\ m < j}
FailedCompletionIdx ==
    {i \in EventIdx : events[i].type = "completion" /\ ~events[i].res.ok}
InterfaceOf(proxy) ==
    CASE proxy = "adapter" -> "net.connman.iwd.Adapter"
      [] proxy = "device" -> "net.connman.iwd.Device"

\* C1: every set_remote_property(proxy, p, v, ..) issues a Properties.Set iff
\* v differs from the value cached for p at the call; when it does it issues
\* exactly one, carrying the proxy's interface name, p and v; otherwise none.
C1_WriteIffDiffers ==
    /\ \A i \in SrpIdx :
         LET e == events[i]
             W == WritesOfCall(i)
         IN  IF e.value # cache[<<e.proxy, e.property>>]
             THEN /\ Cardinality(W) = 1
                  /\ \A j \in W :
                       /\ events[j].call.proxy = e.proxy
                       /\ events[j].call.method = "org.freedesktop.DBus.Properties.Set"
                       /\ events[j].call.args = <<InterfaceOf(e.proxy), e.property, e.value>>
             ELSE W = {}
    /\ \A j \in EventIdx :
         events[j].type = "dbus_call" => \E i \in SrpIdx : i < j

\* a second write issued while an earlier one is still pending
C1_Witness ==
    /\ Dispatched("widget_changed_by_user")
    /\ CountType("dbus_call") = 1
    /\ Cardinality(pending) = 2

\* C2: when the completion of an issued write reports failure, the failure
\* callback runs exactly once, with the callback and context given to the
\* call that issued this write, and exactly one line naming the property and
\* the remote error message goes to stderr.
C2_FailureReported ==
    \A i \in FailedCompletionIdx :
        LET c == events[i].call
            r == events[i].res
        IN  /\ CountType("failure_callback") = 1
            /\ \A j \in EventIdx : events[j].type = "failure_callback" =>
                 /\ events[j].callback = c.origCallback
                 /\ events[j].data = c.origData
            /\ CountType("stderr") = 1
            /\ \A j \in EventIdx : events[j].type = "stderr" =>
                 /\ Contains(events[j].text, c.args[2])
                 /\ Contains(events[j].text, r.message)

\* a write fails while a write with another context is still pending
C2_Witness ==
    /\ FailedCompletionIdx # {}
    /\ \E i \in FailedCompletionIdx, c \in pending :
         /\ c.origData # events[i].call.origData
         /\ events[i].res.message = "NotPermitted"

\* C3: a handler that dispatched no failed completion (a skipped call, an
\* issued call, a successful completion) never invokes a failure callback.
C3_NoCallbackWithoutFailure ==
    FailedCompletionIdx = {} => CountType("failure_callback") = 0

\* a successful completion, after an earlier write failed
C3_Witness ==
    /\ Dispatched("completion")
    /\ events[1].res.ok
    /\ failedCompletions > 0

\* C4 as stated: at most one write in flight for a property of an object.
C4_AtMostOneInFlight == \A k \in Keys : InFlight(k) <= 1

\* C4 amended: each handler adds at most one in-flight write per property, and
\* only through a set_remote_property call for that property whose value
\* differs from the cached one; nothing stops such a call while a write for
\* the property is pending, so two may be in flight.
C4_InFlightGrowsOnlyByDifferingCall ==
    [][\A k \in Keys :
         InFlight(k)' > InFlight(k) =>
            /\ InFlight(k)' = InFlight(k) + 1
            /\ \E i \in DOMAIN events' :
                 /\ events'[i].type = "set_remote_property"
                 /\ <<events'[i].proxy, events'[i].property>> = k
                 /\ events'[i].value # cache'[k]]_vars

\* two writes in flight for the same property
C4_Witness == \E k \in Keys : InFlight(k) = 2

\* C5: the set_remote_property call made by a widget that follows a remote
\* property change issues no write; a write is issued only by the handler of
\* a change the user made, so a change cannot bounce between iwgtk and iwd.
C5_EchoSuppressed ==
    /\ Dispatched("properties_changed") => CountType("dbus_call") = 0
    /\ CountType("dbus_call") > 0 => Dispatched("widget_changed_by_user")

\* a remote change echoed by the widget after the user's write was issued
C5_Witness ==
    /\ Dispatched("properties_changed")
    /\ CountType("set_remote_property") = 1
    /\ issued > 0
    /\ \E i \in SrpIdx : events[i].value = events[1].value

\* C6: the live FailureClosures are exactly the user data of the writes in
\* flight, one each; every completion frees one closure, nothing else frees,
\* and no block is freed or read when it is not live.
C6_ClosureLifecycle ==
    /\ ~heapError
    /\ LiveAddrs = {c.user_data : c \in pending}
    /\ Cardinality(LiveAddrs) = Cardinality(pending)
    /\ CountType("free") = CountType("completion")
    /\ \A c \in pending :
         heap[c.user_data] = [live |-> TRUE, callback |-> c.origCallback,
                              data |-> c.origData, property |-> c.args[2]]

\* a failed completion freed its closure while another write stays in flight
C6_Witness ==
    /\ Dispatched("completion")
    /\ ~events[1].res.ok
    /\ CountType("free") = 1
    /\ Cardinality(LiveAddrs) = 1

\* C7: no more writes than set_remote_property invocations, no more stderr
\* lines and no more failure callbacks than failed completions, and the
\* completion handler itself issues no write.
C7_NoRetryBoundedEffects ==
    /\ issued <= calls
    /\ logLines <= failedCompletions
    /\ cbInvocations <= failedCompletions
    /\ Dispatched("completion") => CountType("dbus_call") = 0

\* a failure whose callback refreshed a widget, re-entering set_remote_property
C7_Witness ==
    /\ FailedCompletionIdx # {}
    /\ CountType("set_remote_property") >= 1
    /\ failedCompletions = 2

\* C8: every write that is in flight eventually gets its completion
\* dispatched: it leaves the in-flight set and its FailureClosure is freed.
C8_CompletionEventuallyFires ==
    \A a \in Addrs : InFlightAt(a) ~> (~InFlightAt(a) /\ ~heap[a].live)

\* all closures in use, every write in flight
C8_Witness == \A a \in Addrs : InFlightAt(a) /\ heap[a].live

NotificationTexts ==
    {events[j].text : j \in {i \in EventIdx : events[i].type = "send_notification"}}
\* a failed completion handled by validation_callback with a failure prefix
FailureWithPrefix ==
    /\ Dispatched("validation_callback")
    /\ ~events[1].res.ok
    /\ ~events[1].messages.null
    /\ events[1].messages.failure # NullStr
\* the entries before the sentinel whose code is the error's code
CodeHits(error_table, err) ==
    {i \in 1..(Len(error_table) - 1) : error_table[i].code = err.code}
MinOf(S) == CHOOSE i \in S : \A j \in S : i <= j

\* C9 as stated: the text is "<prefix>: <message of the entry with the error's
\* code>" when the table has such an entry and "<prefix>" when it has none.
C9_TextByCodeOnly ==
    FailureWithPrefix =>
        LET m == events[1].messages
            hits == CodeHits(m.error_table, events[1].res)
        IN  /\ CountType("send_notification") = 1
            /\ IF hits # {}
               THEN \E i \in hits :
                      NotificationTexts = {m.failure \o <<": ">> \o m.error_table[i].message}
               ELSE NotificationTexts = {m.failure}

\* C9 amended: an error of the iwd error domain whose code is the code of a
\* table entry gives "<prefix>: <message of the first such entry>"; any other
\* error gives "<prefix>: <sentinel message>" when the table's sentinel has a
\* message, and "<prefix>" when it has none or there is no table.
C9_TextByDomainCodeAndSentinel ==
    FailureWithPrefix =>
        LET m == events[1].messages
            t == m.error_table
            err == events[1].res
            hits == IF err.domain = IwdDomain THEN CodeHits(t, err) ELSE {}
            expected ==
                IF hits # {} THEN m.failure \o <<": ">> \o t[MinOf(hits)].message
                ELSE IF t # NullTable /\ t[Len(t)].message # NullStr
                     THEN m.failure \o <<": ">> \o t[Len(t)].message
                     ELSE m.failure
        IN  /\ CountType("send_notification") = 1
            /\ NotificationTexts = {expected}

\* an iwd error whose code is that of table entry 2, and not of entry 1
C9_Witness ==
    /\ FailureWithPrefix
    /\ events[1].res.domain = IwdDomain
    /\ Len(events[1].messages.error_table) = 3
    /\ CodeHits(events[1].messages.error_table, events[1].res) = {2}
    /\ CountType("send_notification") = 1

\* C10: validation_callback writes the raw error message to stderr exactly
\* once when the call failed, whatever messages holds and whether or not
\* notifications are disabled, and writes nothing when the call succeeded.
C10_RawErrorAlwaysLogged ==
    Dispatched("validation_callback") =>
        IF events[1].res.ok
        THEN CountType("stderr") = 0
        ELSE /\ CountType("stderr") = 1
             /\ \A j \in EventIdx : events[j].type = "stderr" =>
                    events[j].text = <<events[1].res.message, "\n">>

\* a failure with messages NULL while notifications are disabled
C10_Witness ==
    /\ Dispatched("validation_callback")
    /\ ~events[1].res.ok
    /\ events[1].messages.null
    /\ notifications_disable
    /\ CountType("stderr") = 1

IdxOfType(t) == {i \in EventIdx : events[i].type = t}

\* C11: in the handler of a failed completion the stderr line comes first,
\* then the failure callback with everything it re-enters, and the closure of
\* that write is freed last; nothing reads the closure once it is freed.
C11_LogThenCallbackThenFree ==
    \A i \in FailedCompletionIdx :
        /\ ~heapError
        /\ Cardinality(IdxOfType("stderr")) = 1
        /\ Cardinality(IdxOfType("failure_callback")) = 1
        /\ Cardinality(IdxOfType("free")) = 1
        /\ \A l \in IdxOfType("stderr"), c \in IdxOfType("failure_callback"),
              f \in IdxOfType("free") :
             /\ i < l /\ l < c /\ c < f
             /\ f = Len(events)
             /\ events[f].addr = events[i].call.user_data
             /\ \A j \in SrpIdx : c < j /\ j < f

\* the callback of a failed write re-entered set_remote_property while
\* another write was pending
C11_Witness ==
    /\ FailedCompletionIdx # {}
    /\ SrpIdx # {}
    /\ pending # {}

\* the entries at which the scan may stop: the error's code when the error
\* is an iwd error, or code zero
StopEntries(error_table, err) ==
    {j \in 1..Len(error_table) :
        \/ error_table[j].code = 0
        \/ err.domain = IwdDomain /\ error_table[j].code = err.code}
ZeroEntries(error_table) == {j \in 1..Len(error_table) : error_table[j].code = 0}

\* C12: with a failure prefix and an error table, validation_callback scans
\* the table from its first entry and stops at the first entry whose code is
\* the code of an iwd error or is zero; an error of another domain stops at
\* the sentinel; the scan stops inside the table, not after the sentinel, and
\* the stop entry's message is the detail of the notification.
C12_ScanStopsAtFirstMatch ==
    FailureWithPrefix =>
        LET t == events[1].messages.error_table
            err == events[1].res
        IN  IF t = NullTable THEN IdxOfType("table_scan") = {}
            ELSE /\ Cardinality(IdxOfType("table_scan")) = 1
                 /\ \A n \in IdxOfType("table_scan") :
                      LET stop == events[n].stop
                      IN  /\ stop \in 1..Len(t)
                          /\ stop = MinOf(StopEntries(t, err))
                          /\ stop <= MinOf(ZeroEntries(t))
                          /\ err.domain # IwdDomain => t[stop].code = 0
                          /\ NotificationTexts =
                               {IF t[stop].message = NullStr
                                THEN events[1].messages.failure
                                ELSE events[1].messages.failure \o <<": ">>
                                       \o t[stop].message}

\* an error of another domain whose code is in the table: the scan passes
\* two entries and stops at the sentinel
C12_Witness ==
    /\ FailureWithPrefix
    /\ events[1].res.domain # IwdDomain
    /\ Len(events[1].messages.error_table) = 3
    /\ CodeHits(events[1].messages.error_table, events[1].res) # {}
    /\ \E n \in IdxOfType("table_scan") : events[n].stop = 3

\* the events of the set_remote_property invocation that starts at event i
SegmentOf(i) ==
    {j \in EventIdx : j > i /\ ~\E m \in SrpIdx : i < m /\ m <= j}
\* where that invocation gives up its reference to the proposed value
ValueConsumedAt(i) ==
    {j \in SegmentOf(i) :
        \/ events[j].type = "g_variant_unref" /\ events[j].what = "value"
        \/ events[j].type = "dbus_call" /\ events[j].call.args[3] = events[i].value}
CachedReleasedAt(i) ==
    {j \in SegmentOf(i) :
        events[j].type = "g_variant_unref" /\ events[j].what = "value_cached"}

\* C13: every set_remote_property invocation gives up the proposed value
\* exactly once (unref when the write is skipped, handed to the outgoing call
\* when it is issued) and then releases the cached value exactly once.
C13_ValuesReleasedOnce ==
    \A i \in SrpIdx :
        /\ Cardinality(ValueConsumedAt(i)) = 1
        /\ Cardinality(CachedReleasedAt(i)) = 1
        /\ \A j \in ValueConsumedAt(i), c \in CachedReleasedAt(i) :
             /\ j < c
             /\ events[j].type = "dbus_call" <=>
                  events[i].value # cache[<<events[i].proxy, events[i].property>>]

\* the write path: the value went into the only call issued so far
C13_Witness ==
    /\ Dispatched("widget_changed_by_user")
    /\ CountType("dbus_call") = 1
    /\ CountType("g_variant_unref") = 1
    /\ Cardinality(pending) = 1

\* C14: when a write failed, every set_remote_property call its failure
\* callback makes while putting the cached values back into the widgets
\* carries the cached value and issues nothing, so the handler of a failure
\* leaves no new write behind.
C14_RollbackIssuesNothing ==
    \A i \in FailedCompletionIdx :
        /\ \A j \in SrpIdx :
             /\ events[j].value = cache[<<events[j].proxy, events[j].property>>]
             /\ WritesOfCall(j) = {}
        /\ IdxOfType("dbus_call") = {}
        /\ \A c \in pending : c # events[i].call

\* the only write failed, its callback reverted the widget, nothing is pending
C14_Witness ==
    /\ FailedCompletionIdx # {}
    /\ CountType("set_remote_property") = 1
    /\ pending = {}
    /\ issued = 1

\* C15: the cached value of a property changes only in the handler of a
\* PropertiesChanged notification, and then to the notified value; no
\* set_remote_property call and no completion changes it, and every
\* set_remote_property call compares with the cache as it stands.
C15_CacheChangedByNotificationOnly ==
    [][/\ cache' # cache =>
            /\ events' # <<>>
            /\ events'[1].type = "properties_changed"
            /\ cache' = [cache EXCEPT ![<<events'[1].proxy, events'[1].property>>] =
                                         events'[1].value]
       /\ \A i \in DOMAIN events' :
            events'[i].type = "set_remote_property" =>
                events'[i].cached = cache'[<<events'[i].proxy, events'[i].property>>]
      ]_vars

\* a write was issued and completed successfully; the cache still holds the
\* old value
C15_Witness ==
    /\ Dispatched("completion")
    /\ events[1].res.ok
    /\ events[1].call.args[3] #
         cache[<<events[1].call.proxy, events[1].call.args[2]>>]

\* C16: while notifications_disable is set validation_callback sends no
\* notification, whatever the outcome and the messages; when it is clear a
\* completion sends at most one, the text handed to send_notification, and
\* none when messages is NULL or the text for the outcome is NULL.
C16_NotificationsGated ==
    Dispatched("validation_callback") =>
        LET m == events[1].messages
            text == IF events[1].res.ok THEN m.success ELSE m.failure
        IN  /\ notifications_disable => IdxOfType("notification") = {}
            /\ Cardinality(IdxOfType("notification")) <= 1
            /\ (m.null \/ text = NullStr) =>
                 IdxOfType("notification") = {} /\ IdxOfType("send_notification") = {}
            /\ \A n \in IdxOfType("notification") :
                 /\ n > 1
                 /\ events[n - 1].type = "send_notification"
                 /\ events[n - 1].text = events[n].body

\* notifications disabled: a failure with prefix and error table reaches
\* send_notification and nothing is sent
C16_Witness ==
    /\ FailureWithPrefix
    /\ events[1].messages.error_table # NullTable
    /\ notifications_disable
    /\ CountType("send_notification") = 1
    /\ CountType("notification") = 0

\* C17: lookup_property returns the value of the first entry, in iteration
\* order, whose key is the property asked for, and NULL when the dictionary
\* has no such entry; it returns once, as its last step.
C17_LookupFirstMatch ==
    Dispatched("lookup_property") =>
        LET d == events[1].dictionary
            hits == {i \in 1..Len(d) : d[i].key = events[1].property}
        IN  /\ IdxOfType("return") = {Len(events)}
            /\ events[Len(events)].value =
                 IF hits = {} THEN NullVariant ELSE d[MinOf(hits)].value

\* the key asked for is at entries 2 and 3 with different values
C17_Witness ==
    /\ Dispatched("lookup_property")
    /\ Len(events[1].dictionary) = 3
    /\ events[1].dictionary[1].key # events[1].property
    /\ events[1].dictionary[2].key = events[1].property
    /\ events[1].dictionary[3].key = events[1].property
    /\ events[1].dictionary[2].value # events[1].dictionary[3].value
    /\ events[Len(events)].type = "return"
    /\ events[Len(events)].value = events[1].dictionary[2].value
====
